---- MODULE Spec2Model ----
(***************************************************************************)
(* Model of backend/app/services/ai_service.py: GeminiService, the pool of *)
(* API keys (round-robin cursor, usage counters, failed set) and the retry *)
(* loop of call_gemini, run by several coroutines on one asyncio event     *)
(* loop, each attempt's request executing in a worker thread.              *)
(*                                                                         *)
(* Conventions.  Indices of api_keys are 0-based as in the source; the     *)
(* TLA+ sequence api_keys holds index i at position i+1.  Strings that the *)
(* code inspects character by character (error messages, response texts)  *)
(* are sequences of one-character strings.  A coroutine runs without       *)
(* interruption from one await to the next: a call at "select" (about to   *)
(* run _get_next_api_key) or at "returned"/"failed" (handing its outcome   *)
(* to the caller) holds the event loop, and no other coroutine is resumed  *)
(* while one holds it; worker threads run at any time.                     *)
(***************************************************************************)
EXTENDS Integers, Sequences, FiniteSets, TLC

\* ------------------------------------------------------------------ bounds
NumCalls == 2       \* coroutines that may run call_gemini concurrently
MaxKeys == 2        \* Spec: environment variables GEMINI_API_KEY_i that are set
MaxSelects == 3     \* Spec: attempts (selections) of all calls of a behaviour
SoloSelects == 5    \* SpecSolo: attempts (selections) of all calls of a behaviour
JitterDenom == 2    \* random.uniform(0, 1) is drawn in steps of 1/JitterDenom
PoolSelects == 6    \* SpecPool: selections of a behaviour
HugeSelects == 3    \* SpecHuge: attempts (selections) of all calls of a behaviour

\* ------------------------------------------------------- program constants
NumEnvSlots == 4    \* range(1, 5): GEMINI_API_KEY_1 .. GEMINI_API_KEY_4

None == "None"
\* the local `response` before line 139 has bound it
NoResponse == <<None>>
Calls == 1..NumCalls

VARIABLES
    service,            \* "ok" | "config_error": how GeminiService() ended
    api_keys,           \* self.api_keys
    current_key_index,  \* self.current_key_index
    key_usage_count,    \* self.key_usage_count (absent entry = 0)
    failed_keys,        \* self.failed_keys
    genai_key,          \* the process-wide key set by genai.configure
    pc,                 \* per call: position of the coroutine
    retry_count,        \* per call: the retry_count argument
    structured,         \* per call: the structured_output argument
    attempt,            \* per call: the loop variable
    api_key,            \* per call: the local api_key
    last_error,         \* per call: str(last_error), None when unset
    result,             \* per call: the returned value
    wait_time,          \* per call: the argument of asyncio.sleep, in 1/JitterDenom s
    thread,             \* per call: "none" | "pending" | "done" (asyncio.to_thread)
    used_key,           \* per call: the key the worker thread's request carried
    response,           \* per call: response.text of the attempt's response
    caught,             \* per call: str(e) of the exception the latest attempt raised
    sel_idx,            \* per call: selected_index of the attempt's selection
    outbound,           \* per call: requests sent by this call
    fails,              \* per call: attempts of this call that failed
    sleeps,             \* per call: asyncio.sleep calls this call has made
    available_indices,  \* per call: the local of _get_next_api_key while it runs
    snap,               \* the pool as the _get_next_api_key now running found it
    pool_op,            \* the last operation on the pool
    raw_text,           \* the argument of a direct _parse_structured_output
    extracted,          \* what that _parse_structured_output returned
    cycle,              \* selections made since failed_keys last changed
    selections,         \* _get_next_api_key calls that have returned, since construction
    run                 \* selections made since failed_keys was last changed or non-empty

vars == <<service, api_keys, current_key_index, key_usage_count, failed_keys,
          genai_key, pc, retry_count, structured, attempt, api_key, last_error, result,
          wait_time, thread, used_key, response, caught, sel_idx, outbound, fails,
          sleeps, available_indices, snap, pool_op, run, cycle, selections, raw_text, extracted>>

\* what only the direct extractions of SpecExtract change
extractVars == <<raw_text, extracted>>

\* what only the statement-by-statement steps of SpecFine change
fineVars == <<available_indices, snap>>

poolVars == <<current_key_index, key_usage_count, failed_keys, pool_op, run,
              cycle, selections>>

\* ------------------------------------------------------------ text helpers
Range(s) == {s[i] : i \in 1..Len(s)}

Pow2(n) == 2 ^ n

\* str.lower() on the letters the modelled messages use
LowerChar(ch) ==
    CASE ch = "Q" -> "q" [] ch = "H" -> "h" [] ch = "T" -> "t" [] ch = "P" -> "p"
      [] ch = "R" -> "r" [] ch = "L" -> "l" [] ch = "E" -> "e" [] ch = "G" -> "g"
      [] OTHER -> ch

Lower(s) == [i \in 1..Len(s) |-> LowerChar(s[i])]

\* the Python operator `sub in s`
Contains(s, sub) ==
    \E i \in 1..(Len(s) - Len(sub) + 1) : SubSeq(s, i, i + Len(sub) - 1) = sub

IsSpace(ch) == ch \in {" ", "\n", "\t"}

RECURSIVE LStrip(_)
LStrip(s) == IF s # <<>> /\ IsSpace(Head(s)) THEN LStrip(Tail(s)) ELSE s

RECURSIVE RStrip(_)
RStrip(s) ==
    IF s # <<>> /\ IsSpace(s[Len(s)]) THEN RStrip(SubSeq(s, 1, Len(s) - 1)) ELSE s

\* str.strip()
Strip(s) == RStrip(LStrip(s))

\* ------------------------------------------------- messages and responses
\* str(e) of the exceptions the upstream call raises, and their characters
EmptyMsg == "Empty response from Gemini"

UpstreamErrors == {"Quota exceeded", "HTTP 429", "Rate Limit", "timeout"}

\* str(e) of the exception genai.configure or genai.GenerativeModel raises
SetupError == "invalid argument"

\* str(e) of the ValueError that json.loads lets out for an integer literal
\* of 4301 digits
IntLimitMsg == "Exceeds the limit (4300 digits) for integer string conversion: value has 4301 digits; use sys.set_int_max_str_digits() to increase the limit"

IntLimitChars ==
    <<"E", "x", "c", "e", "e", "d", "s", " ", "t", "h", "e", " ", "l", "i",
      "m", "i", "t", " ", "(", "4", "3", "0", "0", " ", "d", "i", "g", "i",
      "t", "s", ")", " ", "f", "o", "r", " ", "i", "n", "t", "e", "g", "e",
      "r", " ", "s", "t", "r", "i", "n", "g", " ", "c", "o", "n", "v", "e",
      "r", "s", "i", "o", "n", ":", " ", "v", "a", "l", "u", "e", " ", "h",
      "a", "s", " ", "4", "3", "0", "1", " ", "d", "i", "g", "i", "t", "s",
      ";", " ", "u", "s", "e", " ", "s", "y", "s", ".", "s", "e", "t", "_",
      "i", "n", "t", "_", "m", "a", "x", "_", "s", "t", "r", "_", "d", "i",
      "g", "i", "t", "s", "(", ")", " ", "t", "o", " ", "i", "n", "c", "r",
      "e", "a", "s", "e", " ", "t", "h", "e", " ", "l", "i", "m", "i", "t">>

MsgChars(m) ==
    CASE m = "Quota exceeded" -> <<"Q", "u", "o", "t", "a", " ", "e", "x", "c", "e", "e", "d", "e", "d">>
      [] m = "HTTP 429" -> <<"H", "T", "T", "P", " ", "4", "2", "9">>
      [] m = "Rate Limit" -> <<"R", "a", "t", "e", " ", "L", "i", "m", "i", "t">>
      [] m = "timeout" -> <<"t", "i", "m", "e", "o", "u", "t">>
      [] m = IntLimitMsg -> IntLimitChars
      [] m = SetupError -> <<"i", "n", "v", "a", "l", "i", "d", " ", "a", "r", "g", "u", "m", "e", "n", "t">>
      [] m = EmptyMsg -> <<"E", "m", "p", "t", "y", " ", "r", "e", "s", "p", "o", "n", "s", "e", " ", "f", "r", "o", "m", " ", "G", "e", "m", "i", "n", "i">>

\* response.text of the responses the upstream call returns
RespTexts ==
    {<<>>, <<" ">>, <<" ", "o", "k", "\n">>,
     <<"{", "\"", "a", "\"", ":", "1", "}", "\n">>}

Outcomes ==
    [kind : {"error"}, msg : UpstreamErrors, text : {<<>>}]
        \cup [kind : {"text"}, msg : {None}, text : RespTexts]

\* the markers of line 165
MarkerQuota == <<"q", "u", "o", "t", "a">>
Marker429 == <<"4", "2", "9">>
MarkerRateLimit == <<"r", "a", "t", "e", " ", "l", "i", "m", "i", "t">>

\* the class of the exception with that message: the library's errors, the
\* ValueError of a bad argument, the plain Exception of line 158
RaisedClass(m) ==
    CASE m = EmptyMsg -> "Exception"
      [] m = SetupError -> "ValueError"
      [] m = IntLimitMsg -> "ValueError"
      [] OTHER -> "GoogleAPIError"

\* the classes derived from Exception among them
ExceptionClasses == {"Exception", "ValueError", "GoogleAPIError"}

HandlerCatchesValueError(cls) == cls = "ValueError"

\* `except Exception as e` (line 160)
HandlerCatches(cls) == cls \in ExceptionClasses

HasTextAlways(text) == TRUE

\* `if response.text:` (line 150)
HasText(text) == text # <<>>

IsQuotaErrorAny(m) == TRUE

\* error_msg = str(e).lower(); "quota" in error_msg or "429" in ... (162-165)
IsQuotaError(m) ==
    LET error_msg == Lower(MsgChars(m))
    IN  \/ Contains(error_msg, MarkerQuota)
        \/ Contains(error_msg, Marker429)
        \/ Contains(error_msg, MarkerRateLimit)

\* ------------------------------------------------- structured extraction
TruncLen == 500     \* response[:500] (line 215)

\* s[n:] and s[:n]
Drop(s, n) == SubSeq(s, n + 1, Len(s))
Take(s, n) == SubSeq(s, 1, IF n < Len(s) THEN n ELSE Len(s))

StartsWith(s, p) == Len(p) <= Len(s) /\ SubSeq(s, 1, Len(p)) = p
EndsWith(s, p) == Len(p) <= Len(s) /\ SubSeq(s, Len(s) - Len(p) + 1, Len(s)) = p

\* str.find and str.rfind of one character: a 0-based index, -1 when absent
Find(s, ch) ==
    IF \E i \in 1..Len(s) : s[i] = ch
    THEN (CHOOSE i \in 1..Len(s) : s[i] = ch /\ \A j \in 1..(i - 1) : s[j] # ch) - 1
    ELSE -1

RFind(s, ch) ==
    IF \E i \in 1..Len(s) : s[i] = ch
    THEN (CHOOSE i \in 1..Len(s) : s[i] = ch /\ \A j \in (i + 1)..Len(s) : s[j] # ch) - 1
    ELSE -1

\* two characters a TLA+ string cannot hold, under a name of their own
Backtick == "BACKTICK"
Backspace == "BACKSPACE"

Fence == <<Backtick, Backtick, Backtick>>
FenceJson == Fence \o <<"j", "s", "o", "n">>

\* json.loads, for the JSON texts explored: objects, arrays, strings with
\* the one-character escapes, numbers, and the literals of the Python decoder
Digits == {"0", "1", "2", "3", "4", "5", "6", "7", "8", "9"}
JsonWs == {" ", "\t", "\n", "\r"}
ControlChars == {"\t", "\n", "\r"}
Escapable == {"\"", "\\", "/", "b", "f", "n", "r", "t"}

Unescape(ch) ==
    CASE ch = "n" -> "\n" [] ch = "t" -> "\t" [] ch = "r" -> "\r"
      [] ch = "b" -> Backspace [] ch = "f" -> "\f" [] OTHER -> ch

\* the character at position i, "" beyond the end
At(s, i) == IF i >= 1 /\ i <= Len(s) THEN s[i] ELSE ""

StartsAt(s, i, p) == i + Len(p) - 1 <= Len(s) /\ SubSeq(s, i, i + Len(p) - 1) = p

RECURSIVE SkipWs(_, _)
SkipWs(s, i) == IF At(s, i) \in JsonWs THEN SkipWs(s, i + 1) ELSE i

\* the position after the digits that start at position i
DigitsEnd(s, i) ==
    LET stops == {k \in i..(Len(s) + 1) : At(s, k) \notin Digits}
    IN  IF i > Len(s) THEN i ELSE CHOOSE k \in stops : \A m \in stops : k <= m

\* the outcome of scanning a value: the value and the position after it, or
\* the exception the scan raised
Bad == [ok |-> FALSE, next |-> 0, val |-> <<>>, exc |-> "JSONDecodeError"]
Good(n, v) == [ok |-> TRUE, next |-> n, val |-> v, exc |-> None]

\* sys.int_info.default_max_str_digits: int() of a longer digit string
\* raises ValueError
MaxStrDigits == 4300

IntTooLong == [ok |-> FALSE, next |-> 0, val |-> <<>>, exc |-> "ValueError"]

Literals ==
    {<<"n", "u", "l", "l">>, <<"t", "r", "u", "e">>, <<"f", "a", "l", "s", "e">>,
     <<"N", "a", "N">>, <<"I", "n", "f", "i", "n", "i", "t", "y">>,
     <<"-", "I", "n", "f", "i", "n", "i", "t", "y">>}

\* the groups of NUMBER_RE
\* (0|[1-9]\d*) from position a: the position after it, a when it is absent
IntEnd(s, a) == IF At(s, a) = "0" THEN a + 1 ELSE DigitsEnd(s, a)

\* (\.\d+)? from position b: the position after it
FracEnd(s, b) ==
    IF At(s, b) = "." /\ DigitsEnd(s, b + 1) > b + 1
    THEN DigitsEnd(s, b + 1) ELSE b

\* ([eE][-+]?\d+)? from position c: the position after it
ExpEnd(s, c) ==
    LET d == IF At(s, c + 1) \in {"+", "-"} THEN c + 2 ELSE c + 1
    IN  IF At(s, c) \in {"e", "E"} /\ DigitsEnd(s, d) > d
        THEN DigitsEnd(s, d) ELSE c

\* NUMBER_RE: -?(0|[1-9]\d*)(\.\d+)?([eE][-+]?\d+)? matched at position i;
\* a match without fraction and exponent goes to int(), the others to float()
ParseNumber(s, i) ==
    LET a == IF At(s, i) = "-" THEN i + 1 ELSE i
        b == IntEnd(s, a)
        e == ExpEnd(s, FracEnd(s, b))
    IN  IF b = a THEN Bad
        ELSE IF e = b /\ b - a > MaxStrDigits THEN IntTooLong
        ELSE Good(e, [t |-> "num", v |-> SubSeq(s, i, e - 1)])

\* the characters of a string, from the position after its opening quote
RECURSIVE ParseString(_, _, _)
ParseString(s, i, acc) ==
    IF i > Len(s) THEN Bad
    ELSE IF s[i] = "\"" THEN Good(i + 1, [t |-> "str", v |-> acc])
    ELSE IF s[i] = "\\"
         THEN IF At(s, i + 1) \in Escapable
              THEN ParseString(s, i + 2, Append(acc, Unescape(s[i + 1])))
              ELSE Bad
    ELSE IF s[i] \in ControlChars THEN Bad
    ELSE ParseString(s, i + 1, Append(acc, s[i]))

\* dict semantics: a repeated key keeps its place and takes the later value
PutMember(members, k, v) ==
    IF \E i \in 1..Len(members) : members[i][1] = k
    THEN [i \in 1..Len(members) |->
             IF members[i][1] = k THEN <<k, v>> ELSE members[i]]
    ELSE Append(members, <<k, v>>)

RECURSIVE ParseValue(_, _), ParseMembers(_, _, _), ParseElements(_, _, _)
ParseValue(s, i) ==
    LET ch == At(s, i)
    IN  IF ch = "\"" THEN ParseString(s, i + 1, <<>>)
        ELSE IF ch = "{"
             THEN IF At(s, SkipWs(s, i + 1)) = "}"
                  THEN Good(SkipWs(s, i + 1) + 1, [t |-> "obj", v |-> <<>>])
                  ELSE ParseMembers(s, SkipWs(s, i + 1), <<>>)
        ELSE IF ch = "["
             THEN IF At(s, SkipWs(s, i + 1)) = "]"
                  THEN Good(SkipWs(s, i + 1) + 1, [t |-> "arr", v |-> <<>>])
                  ELSE ParseElements(s, SkipWs(s, i + 1), <<>>)
        ELSE IF ParseNumber(s, i) # Bad THEN ParseNumber(s, i)
        ELSE IF \E lit \in Literals : StartsAt(s, i, lit)
             THEN LET lit == CHOOSE l \in Literals : StartsAt(s, i, l)
                  IN  Good(i + Len(lit), [t |-> "lit", v |-> lit])
        ELSE Bad

\* the members of an object, from the opening quote of a key
ParseMembers(s, i, acc) ==
    IF At(s, i) # "\"" THEN Bad
    ELSE LET key == ParseString(s, i + 1, <<>>)
         IN  IF ~key.ok THEN Bad
             ELSE LET colon == SkipWs(s, key.next)
                  IN  IF At(s, colon) # ":" THEN Bad
                      ELSE LET val == ParseValue(s, SkipWs(s, colon + 1))
                           IN  IF ~val.ok THEN val
                               ELSE LET delim == SkipWs(s, val.next)
                                        put == PutMember(acc, key.val.v, val.val)
                                    IN  IF At(s, delim) = "}"
                                        THEN Good(delim + 1, [t |-> "obj", v |-> put])
                                        ELSE IF At(s, delim) = ","
                                        THEN ParseMembers(s, SkipWs(s, delim + 1), put)
                                        ELSE Bad

\* the elements of an array, from the first character of an element
ParseElements(s, i, acc) ==
    LET val == ParseValue(s, i)
    IN  IF ~val.ok THEN val
        ELSE LET delim == SkipWs(s, val.next)
             IN  IF At(s, delim) = "]"
                 THEN Good(delim + 1, [t |-> "arr", v |-> Append(acc, val.val)])
                 ELSE IF At(s, delim) = ","
                 THEN ParseElements(s, SkipWs(s, delim + 1), Append(acc, val.val))
                 ELSE Bad

\* json.loads(s): the value, or the exception raised
JsonLoads(s) ==
    LET r == ParseValue(s, SkipWs(s, 1))
    IN  IF ~r.ok THEN [exc |-> r.exc, val |-> <<>>]
        ELSE IF SkipWs(s, r.next) > Len(s) THEN [exc |-> None, val |-> r.val]
        ELSE [exc |-> "JSONDecodeError", val |-> <<>>]

\* lines 188-196: strip, then the fence markers
Normalized(text) ==
    LET r1 == Strip(text)
        r2 == IF StartsWith(r1, FenceJson) THEN Drop(r1, 7) ELSE r1
        r3 == IF StartsWith(r2, Fence) THEN Drop(r2, 3) ELSE r2
    IN  IF EndsWith(r3, Fence) THEN SubSeq(r3, 1, Len(r3) - 3) ELSE r3

JsonStrWhole(text) == text

\* lines 199-207: the text handed to json.loads
JsonStr(text) ==
    LET start_idx == Find(text, "{")
        end_idx == RFind(text, "}") + 1
    IN  IF start_idx >= 0 /\ end_idx > start_idx
        THEN SubSeq(text, start_idx + 1, end_idx)
        ELSE text

NoResult == [kind |-> "none"]

ErrorMarker == "Failed to parse structured output"

\* except json.JSONDecodeError (line 209)
ExtractCaught == {"JSONDecodeError"}

\* "raw_response": response[:500] (line 215); rebound is the local response
\* as lines 188-196 left it, original the argument of the method
DiagnosticText(original, rebound) == Take(rebound, TruncLen)

\* _parse_structured_output
ParseStructuredOutput(original) ==
    LET rebound == Normalized(original)
        loaded == JsonLoads(JsonStr(rebound))
    IN  IF loaded.exc = None THEN [kind |-> "json", val |-> loaded.val]
        ELSE IF loaded.exc \in ExtractCaught
        THEN [kind |-> "diag", error |-> ErrorMarker,
              raw_response |-> DiagnosticText(original, rebound)]
        ELSE [kind |-> "raised", exc |-> loaded.exc]

\* -------------------------------------------------------- credential pool
\* the names a configured key can have; keys are opaque, so the j-th distinct
\* key of the environment, in order of first occurrence, is called KeyNames[j]
KeyNames == <<"k1", "k2", "k3", "k4">>

EnvVals == {None, ""} \cup {KeyNames[j] : j \in 1..NumEnvSlots}

\* `if key:` (line 46) and `if not api_key:` (line 125)
Truthy(v) == v # None /\ v # ""

ConstructedAlways(keys) == TRUE

\* `if not keys: raise ValueError(...)` (lines 50-51): construction succeeds
Constructed(keys) == keys # <<>>

RECURSIVE Filtered(_, _)
Filtered(env, i) ==
    IF i > NumEnvSlots THEN <<>>
    ELSE IF Truthy(env[i]) THEN <<env[i]>> \o Filtered(env, i + 1)
    ELSE Filtered(env, i + 1)

\* _load_api_keys: the keys of GEMINI_API_KEY_1..4 that are set, in order
LoadApiKeys(env) == Filtered(env, 1)

\* the environments explored: at most n keys, named in order of occurrence
EnvOK(env, n) ==
    LET keys == LoadApiKeys(env)
    IN  /\ Len(keys) <= n
        /\ \A i \in 1..Len(keys) : \A j \in 1..NumEnvSlots :
              keys[i] = KeyNames[j] /\ j > 1
                  => \E h \in 1..(i - 1) : keys[h] = KeyNames[j - 1]

AllIndices(keys) == 0..(Len(keys) - 1)

RECURSIVE SortedSeq(_)
SortedSeq(S) ==
    IF S = {} THEN <<>>
    ELSE LET m == CHOOSE x \in S : \A y \in S : x <= y
         IN  <<m>> \o SortedSeq(S \ {m})

AvailableIgnoringFailed(keys, failed) == SortedSeq(AllIndices(keys))

\* available_indices = [i for i in range(len(api_keys)) if i not in failed_keys]
AvailableIndices(keys, failed) == SortedSeq(AllIndices(keys) \ failed)

FailedKeptOnReset(keys, failed) == failed

FailedAlwaysCleared(keys, failed) == {}

\* failed_keys after lines 72-76: cleared when no index is available
FailedAfterReset(keys, failed) ==
    IF AvailableIndices(keys, failed) = <<>> THEN {} ELSE failed

SelectedIndexFirst(available, cursor) == available[1]

\* available_indices[current_key_index % len(available_indices)] (line 79)
SelectedIndex(available, cursor) == available[(cursor % Len(available)) + 1]

AdvanceCursorByTwo(available, cursor) == (cursor + 2) % Len(available)

\* (current_key_index + 1) % len(available_indices) (line 80)
AdvanceCursor(available, cursor) == (cursor + 1) % Len(available)

IncrementUsageAll(usage, idx) == [i \in DOMAIN usage |-> usage[i] + 1]

IncrementUsageFromZero(usage, idx) == [usage EXCEPT ![idx] = 1]

\* key_usage_count[selected_index] = key_usage_count.get(selected_index, 0) + 1
IncrementUsage(usage, idx) == [usage EXCEPT ![idx] = @ + 1]

\* _get_next_api_key: the key returned and the pool it leaves
GetNextApiKey(keys, cursor, usage, failed) ==
    IF keys = <<>>
    THEN [key |-> None, idx |-> -1, cursor |-> cursor, usage |-> usage,
          failed |-> failed, reset |-> FALSE]
    ELSE LET failed2 == FailedAfterReset(keys, failed)
             available == IF AvailableIndices(keys, failed) = <<>>
                          THEN SortedSeq(AllIndices(keys))
                          ELSE AvailableIndices(keys, failed)
             selected_index == SelectedIndex(available, cursor)
         IN  [key |-> keys[selected_index + 1],
              idx |-> selected_index,
              cursor |-> AdvanceCursor(available, cursor),
              usage |-> IncrementUsage(usage, selected_index),
              failed |-> failed2,
              reset |-> AvailableIndices(keys, failed) = <<>>]

\* list.index: the first index holding the value
IndexOf(keys, key) == CHOOSE i \in AllIndices(keys) :
    keys[i + 1] = key /\ \A j \in AllIndices(keys) : keys[j + 1] = key => i <= j

\* the exception self.api_keys.index(api_key) raises (line 93), None if none
IndexRaises(keys, key) == IF key \in Range(keys) THEN None ELSE "ValueError"

\* `except ValueError: pass` (lines 96-97)
MarkCaught == {"ValueError"}

MarkKeyFailedToggle(keys, failed, key) ==
    IF key \notin Range(keys) THEN failed
    ELSE IF IndexOf(keys, key) \in failed THEN failed \ {IndexOf(keys, key)}
    ELSE failed \cup {IndexOf(keys, key)}

\* _mark_key_failed: failed_keys afterwards (ValueError swallowed)
MarkKeyFailed(keys, failed, key) ==
    IF key \in Range(keys) THEN failed \cup {IndexOf(keys, key)} ELSE failed

\* _mark_key_failed lets an exception out
MarkKeyFailedRaises(keys, key) ==
    IndexRaises(keys, key) \notin {None} \cup MarkCaught

\* ------------------------------------------------------------- retry loop
LastErrorFirst(old, e) == IF old = None THEN e ELSE old

\* `last_error = e` (line 161)
LastError(old, e) == e

FailurePathNoBackoffCheck(isQuota, a, rc) ==
    IF isQuota THEN "mark" ELSE IF a < rc - 2 THEN "sleep" ELSE "break"

FailurePathAlwaysSleeps(isQuota, a, rc) ==
    IF isQuota THEN "mark" ELSE "sleep"

FailurePathQuotaSleeps(isQuota, a, rc) ==
    IF a < rc - 1 THEN "sleep" ELSE "break"

\* the except block, lines 165-178: what follows a failed attempt
FailurePath(isQuota, a, rc) ==
    IF isQuota THEN "mark" ELSE IF a < rc - 1 THEN "sleep" ELSE "break"

BackoffBaseLinear(a) == 2 * a

\* 2 ** attempt (line 172)
BackoffBase(a) == Pow2(a)

\* random.uniform(0, 1), in units of 1/JitterDenom second
Jitters == 0..(JitterDenom - 1)

TotalUsage == LET RECURSIVE Sum(_)
                  Sum(S) == IF S = {} THEN 0
                            ELSE LET i == CHOOSE x \in S : TRUE
                                 IN  key_usage_count[i] + Sum(S \ {i})
              IN  Sum(DOMAIN key_usage_count)

\* selections a call at this position may still make
Pending(c) ==
    CASE pc[c] \in {"select", "sel_pick", "sel_count"} -> retry_count[c] - attempt[c]
      [] pc[c] \in {"await", "sleeping", "marking", "raised"} ->
            retry_count[c] - attempt[c] - 1
      [] OTHER -> 0

Committed == LET RECURSIVE Sum(_)
                 Sum(S) == IF S = {} THEN 0
                           ELSE LET c == CHOOSE x \in S : TRUE
                                IN  Pending(c) + Sum(S \ {c})
             IN  TotalUsage + Sum(Calls)

LoopFreeAlways == TRUE

\* no coroutine holds the event loop: a coroutine runs from one await to the
\* next, and a call that ended has handed its outcome to its awaiting caller
LoopFree == \A c \in Calls : pc[c] \in {"idle", "await", "sleeping"}

NoOp == [op |-> "none", idx |-> -1, reset |-> FALSE, key |-> None,
         raised |-> FALSE]

\* the record of a _mark_key_failed(key)
MarkOp(keys, key) ==
    [op |-> "mark",
     idx |-> IF key \in Range(keys) THEN IndexOf(keys, key) ELSE -1,
     reset |-> FALSE, key |-> key, raised |-> MarkKeyFailedRaises(keys, key)]

\* no _get_next_api_key is running
NoSnap == [call |-> 0, cursor |-> 0, usage |-> <<>>, failed |-> {}]

\* GeminiService.__init__ (lines 34-39) run at import (line 221), in an
\* environment that sets at most n keys: the service and its idle callers
InitService(n) ==
    /\ \E env \in [1..NumEnvSlots -> EnvVals] :
          /\ EnvOK(env, n)
          /\ api_keys = LoadApiKeys(env)
    /\ service = IF Constructed(api_keys) THEN "ok" ELSE "config_error"
    /\ current_key_index = 0
    /\ key_usage_count = [i \in AllIndices(api_keys) |-> 0]
    /\ failed_keys = {}
    /\ genai_key = None
    /\ pc = [c \in Calls |-> "idle"]
    /\ retry_count = [c \in Calls |-> 0]
    /\ structured = [c \in Calls |-> FALSE]
    /\ attempt = [c \in Calls |-> 0]
    /\ api_key = [c \in Calls |-> None]
    /\ last_error = [c \in Calls |-> None]
    /\ result = [c \in Calls |-> NoResult]
    /\ wait_time = [c \in Calls |-> 0]
    /\ thread = [c \in Calls |-> "none"]
    /\ used_key = [c \in Calls |-> None]
    /\ response = [c \in Calls |-> NoResponse]
    /\ caught = [c \in Calls |-> None]
    /\ sel_idx = [c \in Calls |-> -1]
    /\ outbound = [c \in Calls |-> 0]
    /\ fails = [c \in Calls |-> 0]
    /\ sleeps = [c \in Calls |-> 0]
    /\ available_indices = [c \in Calls |-> <<>>]
    /\ snap = NoSnap
    /\ pool_op = NoOp
    /\ run = <<>>
    /\ cycle = <<>>
    /\ selections = 0

\* ... with no extraction under way
InitWith(n) ==
    /\ InitService(n)
    /\ raw_text = NoResponse
    /\ extracted = NoResult

Init == InitWith(MaxKeys)

InitSolo == InitWith(NumEnvSlots)

\* a caller awaits call_gemini(prompt, structured_output = st,
\* retry_count = rc): lines 118-123
Begin(c, rc, st) ==
    /\ service = "ok"
    /\ pc[c] = "idle"
    /\ LoopFree
    /\ retry_count' = [retry_count EXCEPT ![c] = rc]
    /\ structured' = [structured EXCEPT ![c] = st]
    /\ pc' = [pc EXCEPT ![c] = "select"]
    /\ attempt' = [attempt EXCEPT ![c] = 0]
    /\ api_key' = [api_key EXCEPT ![c] = None]
    /\ last_error' = [last_error EXCEPT ![c] = None]
    /\ result' = [result EXCEPT ![c] = NoResult]
    /\ wait_time' = [wait_time EXCEPT ![c] = 0]
    /\ thread' = [thread EXCEPT ![c] = "none"]
    /\ used_key' = [used_key EXCEPT ![c] = None]
    /\ response' = [response EXCEPT ![c] = NoResponse]
    /\ caught' = [caught EXCEPT ![c] = None]
    /\ sel_idx' = [sel_idx EXCEPT ![c] = -1]
    /\ outbound' = [outbound EXCEPT ![c] = 0]
    /\ fails' = [fails EXCEPT ![c] = 0]
    /\ sleeps' = [sleeps EXCEPT ![c] = 0]
    /\ UNCHANGED <<extractVars, service, api_keys, genai_key, poolVars,
                   fineVars>>

\* any caller starts a call, within the attempts explored; concurrent calls
\* leave structured_output at its default (line 103)
Start(c) == \E rc \in 1..(MaxSelects - Committed) : Begin(c, rc, FALSE)

\* the single caller of SpecSolo starts a call
StartSolo ==
    \E rc \in 1..(SoloSelects - Committed) : \E st \in BOOLEAN : Begin(1, rc, st)

\* one pass of lines 124-148: select a key, configure it, hand the request
\* to a worker thread and await it
Attempt(c) ==
    /\ pc[c] = "select"
    /\ LET r == GetNextApiKey(api_keys, current_key_index, key_usage_count,
                              failed_keys)
       IN  /\ current_key_index' = r.cursor
           /\ key_usage_count' = r.usage
           /\ failed_keys' = r.failed
           /\ api_key' = [api_key EXCEPT ![c] = r.key]
           /\ sel_idx' = [sel_idx EXCEPT ![c] = r.idx]
           /\ pool_op' = [op |-> "select", idx |-> r.idx, reset |-> r.reset,
                          key |-> r.key, raised |-> FALSE]
           /\ run' = IF failed_keys = {}
                     THEN Append(run, [cur |-> current_key_index, idx |-> r.idx])
                     ELSE <<>>
           /\ cycle' = Append(IF r.reset THEN <<>> ELSE cycle,
                              [cur |-> current_key_index, idx |-> r.idx])
           /\ selections' = selections + 1
           /\ IF ~Truthy(r.key)
              THEN \* raise RuntimeError("No available Gemini API keys")
                   /\ pc' = [pc EXCEPT ![c] = "config_error"]
                   /\ UNCHANGED <<genai_key, thread>>
              ELSE /\ genai_key' = r.key
                   /\ thread' = [thread EXCEPT ![c] = "pending"]
                   /\ pc' = [pc EXCEPT ![c] = "await"]
    \* the previous attempt's response is dead: line 139 reassigns it
    /\ response' = [response EXCEPT ![c] = NoResponse]
    /\ UNCHANGED <<extractVars, service, api_keys, retry_count, structured,
                   attempt, last_error, result, wait_time, used_key, caught,
                   outbound, fails, sleeps, fineVars>>

\* the worker thread of asyncio.to_thread runs model.generate_content: the
\* request goes out with the key configured process-wide at that moment
ThreadRun(c) ==
    /\ thread[c] = "pending"
    /\ thread' = [thread EXCEPT ![c] = "done"]
    /\ used_key' = [used_key EXCEPT ![c] = genai_key]
    /\ outbound' = [outbound EXCEPT ![c] = @ + 1]
    /\ UNCHANGED <<extractVars, service, api_keys, genai_key, pc, retry_count,
                   structured, attempt, api_key, last_error, result, wait_time,
                   response, caught, sel_idx, fails, sleeps, poolVars, fineVars>>

ReturnedValueRaw(st, text) ==
    IF st THEN ParseStructuredOutput(text) ELSE [kind |-> "text", val |-> text]

\* lines 151-156: the value a response with text makes the call return
ReturnedValue(st, text) ==
    IF st THEN ParseStructuredOutput(Strip(text))
    ELSE [kind |-> "text", val |-> Strip(text)]

\* lines 150-156: a response with text ends the call
Succeed(c, text) ==
    /\ result' = [result EXCEPT ![c] = ReturnedValue(structured[c], text)]
    /\ pc' = [pc EXCEPT ![c] = "returned"]
    /\ UNCHANGED <<attempt, api_key, sel_idx, last_error, caught, wait_time,
                   fails, sleeps, poolVars>>

\* lines 160-163: the except block binds and logs the exception
FailRecord(c, msg) ==
    /\ caught' = [caught EXCEPT ![c] = msg]
    /\ last_error' = [last_error EXCEPT ![c] = LastError(@, msg)]
    /\ fails' = [fails EXCEPT ![c] = @ + 1]
    /\ result' = result

\* lines 165-182: the rest of the except block and what the loop does next
FailContinue(c, path) ==
    LET more == attempt[c] + 1 < retry_count[c]
    IN  /\ CASE path = "mark" ->
                  /\ failed_keys' = MarkKeyFailed(api_keys, failed_keys, api_key[c])
                  /\ pool_op' = MarkOp(api_keys, api_key[c])
                  /\ run' = <<>>
                  /\ cycle' = IF failed_keys' = failed_keys THEN cycle ELSE <<>>
                  /\ selections' = selections
                  /\ pc' = [pc EXCEPT ![c] =
                               IF MarkKeyFailedRaises(api_keys, api_key[c])
                               THEN "escaped"
                               ELSE IF more THEN "select" ELSE "failed"]
                  /\ attempt' = [attempt EXCEPT ![c] = IF more THEN @ + 1 ELSE @]
                  /\ UNCHANGED <<wait_time, api_key, sel_idx, sleeps,
                                 current_key_index, key_usage_count>>
             [] path = "sleep" ->
                  /\ \E j \in Jitters :
                        wait_time' = [wait_time EXCEPT ![c] =
                                         BackoffBase(attempt[c]) * JitterDenom + j]
                  /\ pc' = [pc EXCEPT ![c] = "sleeping"]
                  /\ sleeps' = [sleeps EXCEPT ![c] = @ + 1]
                  \* api_key is dead across the sleep: line 124 reassigns it
                  /\ api_key' = [api_key EXCEPT ![c] = None]
                  /\ sel_idx' = [sel_idx EXCEPT ![c] = -1]
                  /\ UNCHANGED <<attempt, poolVars>>
             [] path = "break" ->
                  /\ pc' = [pc EXCEPT ![c] = "failed"]
                  /\ UNCHANGED <<attempt, wait_time, api_key, sel_idx, sleeps,
                                 poolVars>>

\* lines 160-182: the except block and what the loop does next
Fail(c, msg) ==
    /\ FailRecord(c, msg)
    /\ FailContinue(c, FailurePath(IsQuotaError(msg), attempt[c], retry_count[c]))

\* an exception that line 160 does not catch leaves call_gemini as it is
Escape(c) ==
    /\ pc' = [pc EXCEPT ![c] = "escaped"]
    /\ UNCHANGED <<caught, last_error, fails, sleeps, result, attempt,
                   wait_time, api_key, sel_idx, poolVars>>

\* the except clause of line 160 on an exception with message msg
Except(c, msg) ==
    IF HandlerCatches(RaisedClass(msg)) THEN Fail(c, msg) ELSE Escape(c)

\* str(e) of an exception _parse_structured_output lets out
ExtractorMsg(exc) == IntLimitMsg

\* lines 150-156 on a response with text: the value is returned, or the
\* exception _parse_structured_output lets out goes to the except clause
Conclude(c, text) ==
    LET value == ReturnedValue(structured[c], text)
    IN  IF value.kind = "raised"
        THEN Except(c, ExtractorMsg(value.exc))
        ELSE Succeed(c, text)

\* the coroutine resumes when its worker thread has finished, with one of
\* the given outcomes of the request
Resume(c, outcomes) ==
    /\ pc[c] = "await"
    /\ thread[c] = "done"
    /\ LoopFree
    /\ thread' = [thread EXCEPT ![c] = "none"]
    /\ used_key' = [used_key EXCEPT ![c] = None]
    /\ \E o \in outcomes :
          /\ response' = [response EXCEPT ![c] =
                              IF o.kind = "text" THEN o.text ELSE @]
          /\ IF o.kind = "text" /\ HasText(o.text)
             THEN Conclude(c, o.text)
             ELSE Except(c, IF o.kind = "error" THEN o.msg ELSE EmptyMsg)
    /\ UNCHANGED <<extractVars, service, api_keys, genai_key, retry_count,
                   structured, outbound, fineVars>>

Handle(c) == Resume(c, Outcomes)

\* asyncio.sleep(wait_time) returns and the loop continues (lines 174-175)
Wake(c) ==
    /\ pc[c] = "sleeping"
    /\ LoopFree
    /\ pc' = [pc EXCEPT ![c] = "select"]
    /\ attempt' = [attempt EXCEPT ![c] = @ + 1]
    /\ wait_time' = [wait_time EXCEPT ![c] = 0]
    /\ UNCHANGED <<extractVars, service, api_keys, genai_key, retry_count,
                   structured, api_key, last_error, result, thread, used_key,
                   response, caught, sel_idx, outbound, fails, sleeps, poolVars,
                   fineVars>>

\* the caller that awaited call_gemini takes the value or the RuntimeError
\* (lines 155, 156, 182) and the call's frame is gone
Finish(c) ==
    /\ pc[c] \in {"returned", "failed"}
    /\ pc' = [pc EXCEPT ![c] = "idle"]
    /\ retry_count' = [retry_count EXCEPT ![c] = 0]
    /\ structured' = [structured EXCEPT ![c] = FALSE]
    /\ attempt' = [attempt EXCEPT ![c] = 0]
    /\ api_key' = [api_key EXCEPT ![c] = None]
    /\ last_error' = [last_error EXCEPT ![c] = None]
    /\ result' = [result EXCEPT ![c] = NoResult]
    /\ used_key' = [used_key EXCEPT ![c] = None]
    /\ response' = [response EXCEPT ![c] = NoResponse]
    /\ caught' = [caught EXCEPT ![c] = None]
    /\ sel_idx' = [sel_idx EXCEPT ![c] = -1]
    /\ outbound' = [outbound EXCEPT ![c] = 0]
    /\ fails' = [fails EXCEPT ![c] = 0]
    /\ sleeps' = [sleeps EXCEPT ![c] = 0]
    /\ UNCHANGED <<extractVars, service, api_keys, genai_key, wait_time, thread,
                   poolVars, fineVars>>

Next ==
    \/ \E c \in Calls : Start(c)
    \/ \E c \in Calls : Attempt(c)
    \/ \E c \in Calls : ThreadRun(c)
    \/ \E c \in Calls : Handle(c)
    \/ \E c \in Calls : Wake(c)
    \/ \E c \in Calls : Finish(c)

Spec == Init /\ [][Next]_vars

\* the scheduling the claims about progress assume: the event loop runs a
\* coroutine that is ready (at its selection, at the end of its call, resumed
\* by its finished worker thread or by the end of its sleep), and a worker
\* thread that has the request sends it and gets its outcome; callers are
\* free to start calls or not
Scheduling ==
    \A c \in Calls :
        /\ WF_vars(Attempt(c))
        /\ WF_vars(ThreadRun(c))
        /\ WF_vars(Handle(c))
        /\ WF_vars(Wake(c))
        /\ WF_vars(Finish(c))

SpecFair == Spec /\ Scheduling

\* one caller, one call at a time, every environment of up to four keys
NextSolo ==
    \/ StartSolo
    \/ Attempt(1)
    \/ ThreadRun(1)
    \/ Handle(1)
    \/ Wake(1)
    \/ Finish(1)

SpecSolo == InitSolo /\ [][NextSolo]_vars

\* ------------------------------------------------ attempts that never send
\* lines 124-136 when genai.configure or genai.GenerativeModel raises: the
\* key is selected, no request is handed to a worker thread, and control
\* goes to the except clause
SetupRaises(c) ==
    /\ pc[c] = "select"
    /\ LET r == GetNextApiKey(api_keys, current_key_index, key_usage_count,
                              failed_keys)
       IN  /\ Truthy(r.key)
           /\ current_key_index' = r.cursor
           /\ key_usage_count' = r.usage
           /\ failed_keys' = r.failed
           /\ api_key' = [api_key EXCEPT ![c] = r.key]
           /\ sel_idx' = [sel_idx EXCEPT ![c] = r.idx]
           /\ pool_op' = [op |-> "select", idx |-> r.idx, reset |-> r.reset,
                          key |-> r.key, raised |-> FALSE]
           /\ run' = IF failed_keys = {}
                     THEN Append(run, [cur |-> current_key_index, idx |-> r.idx])
                     ELSE <<>>
           /\ cycle' = Append(IF r.reset THEN <<>> ELSE cycle,
                              [cur |-> current_key_index, idx |-> r.idx])
           /\ selections' = selections + 1
           \* genai.configure may have stored the key before the exception
           /\ genai_key' \in {genai_key, r.key}
    /\ pc' = [pc EXCEPT ![c] = "raised"]
    /\ response' = [response EXCEPT ![c] = NoResponse]
    /\ UNCHANGED <<extractVars, service, api_keys, retry_count, structured,
                   attempt, last_error, result, wait_time, thread, used_key,
                   caught, outbound, fails, sleeps, fineVars>>

\* the except clause takes the exception of the setup
HandleSetupError(c) ==
    /\ pc[c] = "raised"
    /\ Except(c, SetupError)
    /\ UNCHANGED <<extractVars, service, api_keys, genai_key, retry_count,
                   structured, thread, used_key, response, outbound, fineVars>>

\* one caller whose attempts may fail before any request is sent
NextThrow ==
    \/ StartSolo
    \/ Attempt(1)
    \/ SetupRaises(1)
    \/ HandleSetupError(1)
    \/ ThreadRun(1)
    \/ Handle(1)
    \/ Wake(1)
    \/ Finish(1)

SpecThrow == Init /\ [][NextThrow]_vars

\* ------------------------------------------- responses json.loads rejects
\* the outcomes of a request, among them a response whose text is an
\* integer literal too long for int()
HugeInt == <<>> \o [i \in 1..(MaxStrDigits + 1) |-> "1"]

HugeOutcomes == Outcomes \cup [kind : {"text"}, msg : {None}, text : {HugeInt}]

HandleHuge(c) == Resume(c, HugeOutcomes)

\* the single caller of SpecHuge starts a call
StartHuge ==
    \E rc \in 1..(HugeSelects - Committed) : \E st \in BOOLEAN : Begin(1, rc, st)

\* one caller, with or without structured_output, and those responses
NextHuge ==
    \/ StartHuge
    \/ Attempt(1)
    \/ ThreadRun(1)
    \/ HandleHuge(1)
    \/ Wake(1)
    \/ Finish(1)

SpecHuge == Init /\ [][NextHuge]_vars

\* ------------------------------------------- statement by statement steps
\* _get_next_api_key and _mark_key_failed taken one group of statements at
\* a time, so that whatever the event loop and the worker threads can run
\* between two statements of one call is a step of the model.

\* lines 66-76: the availability check and the reset
SelCheck(c) ==
    /\ pc[c] = "select"
    /\ snap' = [call |-> c, cursor |-> current_key_index,
                usage |-> key_usage_count, failed |-> failed_keys]
    /\ failed_keys' = FailedAfterReset(api_keys, failed_keys)
    /\ available_indices' = [available_indices EXCEPT ![c] =
          IF AvailableIndices(api_keys, failed_keys) = <<>>
          THEN SortedSeq(AllIndices(api_keys))
          ELSE AvailableIndices(api_keys, failed_keys)]
    /\ pc' = [pc EXCEPT ![c] = "sel_pick"]
    /\ UNCHANGED <<extractVars, service, api_keys, current_key_index,
                   key_usage_count, genai_key, retry_count, structured, attempt,
                   api_key, last_error, result, wait_time, thread, used_key,
                   response, caught, sel_idx, outbound, fails, sleeps, pool_op,
                   run, cycle, selections>>

\* lines 79-80: the index selection and the cursor advance
SelPick(c) ==
    /\ pc[c] = "sel_pick"
    /\ sel_idx' = [sel_idx EXCEPT ![c] =
                      SelectedIndex(available_indices[c], current_key_index)]
    /\ current_key_index' = AdvanceCursor(available_indices[c], current_key_index)
    /\ pc' = [pc EXCEPT ![c] = "sel_count"]
    /\ UNCHANGED <<extractVars, service, api_keys, key_usage_count, failed_keys,
                   genai_key, retry_count, structured, attempt, api_key,
                   last_error, result, wait_time, thread, used_key, response,
                   caught, outbound, fails, sleeps, pool_op, run, cycle, selections,
                   fineVars>>

\* lines 85-88 and 125-148: the usage increment, the return, and the rest
\* of the attempt up to the await
SelCount(c) ==
    /\ pc[c] = "sel_count"
    /\ key_usage_count' = IncrementUsage(key_usage_count, sel_idx[c])
    /\ api_key' = [api_key EXCEPT ![c] = api_keys[sel_idx[c] + 1]]
    /\ genai_key' = api_keys[sel_idx[c] + 1]
    /\ thread' = [thread EXCEPT ![c] = "pending"]
    /\ pc' = [pc EXCEPT ![c] = "await"]
    /\ response' = [response EXCEPT ![c] = NoResponse]
    /\ available_indices' = [available_indices EXCEPT ![c] = <<>>]
    /\ pool_op' = [op |-> "select", idx |-> sel_idx[c],
                   reset |-> AvailableIndices(api_keys, snap.failed) = <<>>,
                   key |-> api_keys[sel_idx[c] + 1], raised |-> FALSE]
    /\ run' = IF snap.failed = {}
              THEN Append(run, [cur |-> snap.cursor, idx |-> sel_idx[c]])
              ELSE <<>>
    /\ cycle' = Append(IF snap.failed # failed_keys THEN <<>> ELSE cycle,
                       [cur |-> snap.cursor, idx |-> sel_idx[c]])
    /\ selections' = selections + 1
    /\ snap' = NoSnap
    /\ UNCHANGED <<extractVars, service, api_keys, current_key_index,
                   failed_keys, retry_count, structured, attempt, last_error,
                   result, wait_time, used_key, caught, sel_idx, outbound,
                   fails, sleeps>>

\* Handle, stopping before the call of _mark_key_failed (line 167)
HandleFine(c) ==
    /\ pc[c] = "await"
    /\ thread[c] = "done"
    /\ LoopFree
    /\ thread' = [thread EXCEPT ![c] = "none"]
    /\ used_key' = [used_key EXCEPT ![c] = None]
    /\ \E o \in Outcomes :
          /\ response' = [response EXCEPT ![c] =
                              IF o.kind = "text" THEN o.text ELSE @]
          /\ IF o.kind = "text" /\ HasText(o.text)
             THEN Conclude(c, o.text)
             ELSE LET msg == IF o.kind = "error" THEN o.msg ELSE EmptyMsg
                      path == FailurePath(IsQuotaError(msg), attempt[c],
                                          retry_count[c])
                  IN  IF ~HandlerCatches(RaisedClass(msg)) THEN Escape(c)
                      ELSE /\ FailRecord(c, msg)
                           /\ IF path = "mark"
                              THEN /\ pc' = [pc EXCEPT ![c] = "marking"]
                                   /\ UNCHANGED <<attempt, wait_time, api_key,
                                                  sel_idx, sleeps, poolVars>>
                              ELSE FailContinue(c, path)
    /\ UNCHANGED <<extractVars, service, api_keys, genai_key, retry_count,
                   structured, outbound, fineVars>>

\* lines 167-168: _mark_key_failed and `continue`
MarkStep(c) ==
    /\ pc[c] = "marking"
    /\ FailContinue(c, "mark")
    /\ UNCHANGED <<extractVars, service, api_keys, genai_key, retry_count,
                   structured, last_error, result, thread, used_key, response,
                   caught, outbound, fails, fineVars>>

NextFine ==
    \/ \E c \in Calls : Start(c)
    \/ \E c \in Calls : SelCheck(c)
    \/ \E c \in Calls : SelPick(c)
    \/ \E c \in Calls : SelCount(c)
    \/ \E c \in Calls : ThreadRun(c)
    \/ \E c \in Calls : HandleFine(c)
    \/ \E c \in Calls : MarkStep(c)
    \/ \E c \in Calls : Wake(c)
    \/ \E c \in Calls : Finish(c)

SpecFine == Init /\ [][NextFine]_vars

\* ------------------------------------------------ the pool, used directly
\* The two pool methods called in any order and with any argument, as the
\* contract of the pool (spec 4.1) allows, on every key list of up to four
\* keys.
callVars == <<genai_key, pc, retry_count, structured, attempt, api_key, last_error, result,
              wait_time, thread, used_key, response, caught, sel_idx, outbound,
              fails, sleeps>>

\* the arguments _mark_key_failed is tried with: the pool's keys and others
MarkArgs == Range(api_keys) \cup {"zz", "", None}

PoolSelect ==
    /\ service = "ok"
    /\ TotalUsage < PoolSelects
    /\ LET r == GetNextApiKey(api_keys, current_key_index, key_usage_count,
                              failed_keys)
       IN  /\ current_key_index' = r.cursor
           /\ key_usage_count' = r.usage
           /\ failed_keys' = r.failed
           /\ pool_op' = [op |-> "select", idx |-> r.idx, reset |-> r.reset,
                          key |-> r.key, raised |-> FALSE]
           /\ run' = IF failed_keys = {}
                     THEN Append(run, [cur |-> current_key_index, idx |-> r.idx])
                     ELSE <<>>
           /\ cycle' = Append(IF r.reset THEN <<>> ELSE cycle,
                              [cur |-> current_key_index, idx |-> r.idx])
           /\ selections' = selections + 1
    /\ UNCHANGED <<extractVars, service, api_keys, callVars, fineVars>>

PoolMark(key) ==
    /\ service = "ok"
    /\ failed_keys' = MarkKeyFailed(api_keys, failed_keys, key)
    /\ pool_op' = MarkOp(api_keys, key)
    /\ run' = <<>>
    /\ cycle' = IF failed_keys' = failed_keys THEN cycle ELSE <<>>
    /\ selections' = selections
    /\ UNCHANGED <<extractVars, service, api_keys, current_key_index,
                   key_usage_count, callVars, fineVars>>

NextPool ==
    \/ PoolSelect
    \/ \E key \in MarkArgs : PoolMark(key)

SpecPool == InitSolo /\ [][NextPool]_vars

\* ------------------------------------------------ the extractor, used directly
\* _parse_structured_output applied to texts put together from the noise it
\* is written for: surrounding whitespace, code fences, prose around the JSON.
TextLeads == {<<>>, <<" ", "\n">>}
TextOpens == {<<>>, Fence, FenceJson, FenceJson \o Fence}
TextBreaks == {<<>>, <<"\n">>}
TextBefore == {<<>>, <<"H", "i", ":", " ">>}
TextAfter == {<<>>, <<" ", "o", "k">>}
TextCloses == {<<>>, Fence}
TextTrails == {<<>>, <<" ">>}

TextBodies ==
    {<<>>,
     <<"{", "}">>,
     <<"{", "\"", "a", "\"", ":", " ", "1", "}">>,
     <<"{", "\"", "a", "\"", ":", "{", "\"", "b", "\"", ":", "[", "1", ",", "2", "]", "}", "}">>,
     <<"[", "{", "\"", "a", "\"", ":", "1", "}", ",", "{", "\"", "b", "\"", ":", "2", "}", "]">>,
     <<"[", "1", ",", "2", "]">>,
     <<"4", "2">>,
     <<"\"", "}", "{", "\"">>,
     <<"n", "o", "t", " ", "j", "s", "o", "n">>,
     <<"{", "a", ":", "1", "}">>,
     <<"{", "\"", "a", "\"", ":", "1", ",", "}">>,
     <<"{", "\"", "a", "\"">>}

\* texts around the truncation length, none of them JSON
LongTexts ==
    {lead \o [i \in 1..n |-> "x"] :
        lead \in TextLeads, n \in {TruncLen - 1, TruncLen, TruncLen + 1}}

\* texts around the digit limit of int()
HugeTexts ==
    {Tail(HugeInt), HugeInt, <<"-">> \o HugeInt, HugeInt \o <<".", "5">>,
     HugeInt \o <<"e", "2">>,
     <<"{", "\"", "n", "\"", ":">> \o HugeInt \o <<"}">>,
     FenceJson \o <<"\n", "[">> \o HugeInt \o <<",", "}", "]">> \o Fence,
     <<"[", "}", ",">> \o HugeInt \o <<"]">>}

RawTexts ==
    {lead \o open \o brk \o before \o body \o after \o close \o trail :
        lead \in TextLeads, open \in TextOpens, brk \in TextBreaks,
        before \in TextBefore, body \in TextBodies, after \in TextAfter,
        close \in TextCloses, trail \in TextTrails}
      \cup LongTexts \cup HugeTexts

InitExtract ==
    /\ InitService(1)
    /\ service = "ok"
    /\ raw_text \in RawTexts
    /\ extracted = NoResult

Extract ==
    /\ raw_text # NoResponse
    /\ extracted = NoResult
    /\ extracted' = ParseStructuredOutput(raw_text)
    /\ UNCHANGED <<raw_text, service, api_keys, poolVars, callVars, fineVars>>

NextExtract == Extract

SpecExtract == InitExtract /\ [][NextExtract]_vars

\* ------------------------------------------------------------------ claims
\* the classification the claims speak of, message by message
QuotaMsgs == {"Quota exceeded", "HTTP 429", "Rate Limit"}
TransientMsgs == {"timeout", EmptyMsg}

\* call c handles a failed attempt in this step
FailStep(c) == pc[c] = "await" /\ pc'[c] \notin {"await", "returned"}

\* call c runs _get_next_api_key in this step
SelectStep(c) == pc[c] = "select" /\ pc'[c] # "select"

\* C1: a call whose every attempt failed ends with the raised failure after
\* exactly retry_count requests, never fewer or more, and returns no value; a
\* call that returns a value had its last attempt succeed.
ExhaustionReporting ==
    \A c \in Calls :
        /\ fails[c] <= outbound[c] /\ outbound[c] <= retry_count[c]
        /\ pc[c] = "failed" =>
              /\ fails[c] = retry_count[c]
              /\ outbound[c] = retry_count[c]
              /\ result[c] = NoResult
        /\ (retry_count[c] >= 1 /\ fails[c] = retry_count[c]) => pc[c] = "failed"
        /\ pc[c] = "returned" =>
              fails[c] = outbound[c] - 1 /\ fails[c] < retry_count[c]

ExhaustedAfterThree ==
    \E c \in Calls :
        pc[c] = "failed" /\ retry_count[c] = 3 /\ outbound[c] = 3 /\ fails[c] = 3

\* C2: while the latest failure of a call is a quota failure the call is never
\* asleep: it is at its next selection, in its next attempt (or has returned
\* that attempt's value), or it has ended with the terminal failure after its
\* last attempt.
QuotaNeverSleeps ==
    \A c \in Calls :
        last_error[c] \in QuotaMsgs =>
            /\ pc[c] \in {"select", "await", "returned", "failed"}
            /\ wait_time[c] = 0
            /\ pc[c] = "select" => attempt[c] = fails[c] /\ attempt[c] < retry_count[c]
            /\ pc[c] = "returned" => fails[c] < outbound[c]
            /\ pc[c] = "failed" => outbound[c] = retry_count[c]

QuotaThenNextSelect ==
    \E c \in Calls :
        last_error[c] \in QuotaMsgs /\ pc[c] = "select" /\ attempt[c] >= 1

\* C3: a transient failure of attempt a < retry_count - 1 is followed by one
\* sleep of 2^a seconds plus a jitter in [0,1), after which attempt a + 1
\* starts; a transient failure of the last attempt is followed by no sleep.
BackoffSchedule ==
    [][\A c \in Calls :
          /\ (FailStep(c) /\ last_error'[c] \in TransientMsgs) =>
                IF attempt[c] < retry_count[c] - 1
                THEN /\ pc'[c] = "sleeping"
                     /\ wait_time'[c] >= Pow2(attempt[c]) * JitterDenom
                     /\ wait_time'[c] < (Pow2(attempt[c]) + 1) * JitterDenom
                ELSE pc'[c] = "failed" /\ wait_time'[c] = wait_time[c]
          /\ (pc[c] = "sleeping" /\ pc'[c] # "sleeping") =>
                pc'[c] = "select" /\ attempt'[c] = attempt[c] + 1
          /\ (pc[c] # "sleeping" /\ pc'[c] = "sleeping") =>
                FailStep(c) /\ last_error'[c] \in TransientMsgs
      ]_vars

SleepsFourSeconds ==
    \E c \in Calls :
        /\ pc[c] = "sleeping" /\ attempt[c] = 2
        /\ wait_time[c] \div JitterDenom = 4

\* C4: with an empty failed set and no _mark_key_failed in between, M
\* consecutive selections pick cursor, cursor + 1, ... modulo N: every index is
\* picked floor(M/N) or ceil(M/N) times, and none twice before all others once.
RotationFairness ==
    LET N == Len(api_keys)
        M == Len(run)
        Count(k) == Cardinality({i \in 1..M : run[i].idx = k})
    IN  /\ \A i \in 1..M : run[i].idx = (run[1].cur + i - 1) % N
        /\ \A k \in AllIndices(api_keys) :
              Count(k) \in {M \div N, (M + N - 1) \div N}
        /\ \A i, j \in 1..M :
              (i < j /\ run[i].idx = run[j].idx) =>
                  \A k \in AllIndices(api_keys) : \E m \in i..j : run[m].idx = k

RotationWrapsAround ==
    Len(api_keys) >= 3 /\ Len(run) > Len(api_keys)

\* C5: a selection made while failed_keys holds every index returns a key of
\* the pool and leaves failed_keys empty.
SelfHealing ==
    [][\A c \in Calls :
          (SelectStep(c) /\ failed_keys = AllIndices(api_keys)) =>
              /\ failed_keys' = {}
              /\ pc'[c] = "await"
              /\ sel_idx'[c] \in AllIndices(api_keys)
              /\ api_key'[c] = api_keys[sel_idx'[c] + 1]
      ]_vars

SelectedAfterTotalFailure ==
    /\ pool_op.op = "select" /\ pool_op.reset
    /\ Len(api_keys) >= 2
    /\ \E c \in Calls : pc[c] = "await" /\ sel_idx[c] = pool_op.idx

\* C6: failed_keys is a strict subset of the indices in every state between
\* operations, also directly after _mark_key_failed (the claim as stated).
FailedAlwaysStrictSubset ==
    service = "ok" =>
        failed_keys \subseteq AllIndices(api_keys) /\ failed_keys # AllIndices(api_keys)

\* C6, amended: failed_keys is a subset of the indices, strict in every state
\* except those that directly follow a _mark_key_failed, where it may hold
\* every index until the next selection clears it.
FailedFullOnlyAfterMark ==
    service = "ok" =>
        /\ failed_keys \subseteq AllIndices(api_keys)
        /\ failed_keys = AllIndices(api_keys) => pool_op.op = "mark"
        /\ pool_op.op = "select" => failed_keys # AllIndices(api_keys)

AllFailedAfterMark ==
    /\ service = "ok" /\ Len(api_keys) >= 2
    /\ failed_keys = AllIndices(api_keys)
    /\ pool_op.op = "mark"

\* C7: the index a selection returns is outside failed_keys as the selection
\* leaves it, whatever the concurrent calls did before.
SelectedNotFailed ==
    /\ pool_op.op = "select" => pool_op.idx \notin failed_keys
    /\ \A c \in Calls :
          (pc[c] = "await" /\ pool_op.op = "select" /\ pool_op.idx = sel_idx[c]
             /\ thread[c] = "pending") => sel_idx[c] \notin failed_keys

SelectedAmongFailed ==
    /\ pool_op.op = "select" /\ ~pool_op.reset
    /\ failed_keys # {}
    /\ \E c, d \in Calls : c # d /\ pc[c] = "await" /\ pc[d] = "await"

\* C8: with no key configured the construction fails, so no call, selection or
\* request ever runs on an empty pool and the `not api_key` branch of
\* call_gemini is never taken.
NoCallOnEmptyPool ==
    /\ api_keys = <<>> => service = "config_error"
    /\ service = "config_error" =>
          /\ \A c \in Calls : pc[c] = "idle" /\ outbound[c] = 0
          /\ pool_op = NoOp
    /\ \A c \in Calls : pc[c] # "config_error"
    /\ \A c \in Calls : pc[c] \in {"await", "returned", "failed"} => Len(api_keys) >= 1

ConstructionFailed == service = "config_error" /\ api_keys = <<>>

\* C9: directly after a quota failure, before any further selection, the index
\* that the failed attempt had selected is in failed_keys, on the last attempt
\* too.
QuotaPenalizesSelected ==
    \A c \in Calls :
        (last_error[c] \in QuotaMsgs /\ pc[c] \in {"select", "failed"}) =>
            sel_idx[c] \in failed_keys

\* C10: handling a transient failure leaves failed_keys as it was, whether the
\* call goes on to sleep or ends.
TransientKeepsFailedSet ==
    [][\A c \in Calls :
          (FailStep(c) /\ last_error'[c] \in TransientMsgs) =>
              failed_keys' = failed_keys
      ]_vars

TransientWithPenalizedKey ==
    /\ failed_keys # {}
    /\ \E c \in Calls : pc[c] = "sleeping" /\ last_error[c] \in TransientMsgs

\* C11: a response with empty text is handled as a transient failure: it
\* never ends the call with a value, it counts as one failed attempt with the
\* cause "Empty response from Gemini", it leaves failed_keys alone, it is
\* followed by the backoff sleep of that attempt when attempts remain, and on
\* the last attempt it ends the call with that cause as last_error.
EmptyResponseIsTransient ==
    [][\A c \in Calls :
          (pc[c] = "await" /\ pc'[c] # "await" /\ response'[c] = <<>>) =>
              /\ last_error'[c] = EmptyMsg
              /\ fails'[c] = fails[c] + 1
              /\ attempt'[c] = attempt[c] /\ outbound'[c] = outbound[c]
              /\ failed_keys' = failed_keys /\ pool_op' = pool_op
              /\ IF attempt[c] < retry_count[c] - 1
                 THEN /\ pc'[c] = "sleeping"
                      /\ wait_time'[c] >= Pow2(attempt[c]) * JitterDenom
                      /\ wait_time'[c] < (Pow2(attempt[c]) + 1) * JitterDenom
                 ELSE pc'[c] = "failed" /\ wait_time'[c] = wait_time[c]
      ]_vars

EmptyOnLastAttempt ==
    \E c \in Calls :
        /\ pc[c] = "failed" /\ response[c] = <<>> /\ last_error[c] = EmptyMsg
        /\ retry_count[c] >= 2 /\ failed_keys # {}

\* C13: the cause carried by the failure raised after the loop is the
\* exception caught in the last attempt this call made, not one of its
\* earlier attempts and not one caught by another call.
TerminalCarriesLastFailure ==
    \A c \in Calls :
        /\ pc[c] = "failed" =>
              /\ caught[c] # None
              /\ last_error[c] = caught[c]
              /\ fails[c] = retry_count[c] /\ attempt[c] = retry_count[c] - 1
        /\ pc[c] \in {"idle", "config_error"} => last_error[c] = None
        /\ (pc[c] = "select" /\ attempt[c] = 0) => last_error[c] = None

FailedBesideOtherCall ==
    \E c, d \in Calls :
        /\ c # d
        /\ pc[c] = "failed" /\ fails[c] >= 2 /\ last_error[c] = "timeout"
        /\ pc[d] = "await" /\ thread[d] = "done"

\* C17: the request a worker thread sends carries the key that the attempt's
\* own _get_next_api_key returned, whatever other calls did between the
\* attempt's genai.configure and the thread's request.
RequestCarriesSelectedKey ==
    \A c \in Calls :
        (pc[c] = "await" /\ thread[c] = "done") => used_key[c] = api_key[c]

\* C16: _get_next_api_key and _mark_key_failed each act on the pool as one
\* indivisible step: while a call is between the statements of one of them
\* no other coroutine moves and nobody else changes the pool, and the pool
\* a selection leaves is the pool it found with the whole selection applied.
PoolUpdatesAtomic ==
    [][\A c \in Calls :
          /\ pc[c] \in {"sel_pick", "sel_count", "marking"} =>
                /\ \A d \in Calls \ {c} : pc'[d] = pc[d] /\ api_key'[d] = api_key[d]
                /\ <<current_key_index, key_usage_count, failed_keys>>
                       # <<current_key_index', key_usage_count', failed_keys'>>
                      => pc'[c] # pc[c]
          /\ (pc[c] = "sel_count" /\ pc'[c] # "sel_count") =>
                LET r == GetNextApiKey(api_keys, snap.cursor, snap.usage,
                                       snap.failed)
                IN  /\ snap.call = c
                    /\ current_key_index' = r.cursor
                    /\ key_usage_count' = r.usage
                    /\ failed_keys' = r.failed
                    /\ api_key'[c] = r.key
          /\ (pc[c] = "marking" /\ pc'[c] # "marking") =>
                /\ failed_keys' = MarkKeyFailed(api_keys, failed_keys, api_key[c])
                /\ current_key_index' = current_key_index
                /\ key_usage_count' = key_usage_count
      ]_vars

\* a selection is under way, between its cursor advance and its usage
\* increment, while the worker thread of another call is about to run
SelectionUnderWayBesideThread ==
    \E c, d \in Calls :
        /\ c # d
        /\ pc[c] = "sel_count" /\ snap.call = c /\ snap.failed # {}
        /\ pc[d] = "await" /\ thread[d] = "pending"

\* C18: _mark_key_failed never raises, whatever string it is given; it
\* leaves the cursor and the usage counters alone and adds at most one index;
\* for a string that is not a key of the pool it leaves failed_keys alone too;
\* and applied a second time it changes nothing more.
MarkFailedTotalIdempotent ==
    [][/\ \A key \in MarkArgs :
             LET once == MarkKeyFailed(api_keys, failed_keys, key)
             IN  /\ MarkKeyFailed(api_keys, once, key) = once
                 /\ ~MarkKeyFailedRaises(api_keys, key)
                 /\ key \notin Range(api_keys) => once = failed_keys
       /\ (pool_op'.op = "mark"
             /\ <<pool_op, failed_keys>> # <<pool_op', failed_keys'>>) =>
             /\ ~pool_op'.raised
             /\ current_key_index' = current_key_index
             /\ key_usage_count' = key_usage_count
             /\ failed_keys \subseteq failed_keys'
             /\ Cardinality(failed_keys' \ failed_keys) <= 1
             /\ pool_op'.key \notin Range(api_keys) => failed_keys' = failed_keys
             /\ MarkKeyFailed(api_keys, failed_keys', pool_op'.key) = failed_keys'
      ]_vars

\* an unknown string was marked on a pool with a failed key and a moved cursor
UnknownKeyMarked ==
    /\ pool_op.op = "mark" /\ pool_op.key = "zz" /\ pool_op.idx = -1
    /\ failed_keys # {} /\ current_key_index > 0
    /\ Len(api_keys) >= 2

\* C19: every _get_next_api_key sets current_key_index to the old value plus
\* one modulo the number of available indices, counted after the reset if it
\* resets, adds exactly one to the usage counter of the index it returns and
\* leaves the other counters alone; nothing that happens to the attempt
\* afterwards changes the cursor or a counter.
SelectNextEffect ==
    [][/\ \A c \in Calls :
             SelectStep(c) =>
                 LET live == AllIndices(api_keys) \ failed_keys
                     avail == IF live = {} THEN AllIndices(api_keys) ELSE live
                     idx == sel_idx'[c]
                 IN  /\ current_key_index' =
                            (current_key_index + 1) % Cardinality(avail)
                     /\ idx \in avail
                     /\ key_usage_count'[idx] = key_usage_count[idx] + 1
                     /\ \A i \in AllIndices(api_keys) \ {idx} :
                            key_usage_count'[i] = key_usage_count[i]
       /\ (\A c \in Calls : ~SelectStep(c)) =>
             /\ current_key_index' = current_key_index
             /\ key_usage_count' = key_usage_count
      ]_vars

UsageKeptAfterFailure ==
    \E c \in Calls :
        /\ pc[c] = "failed" /\ pool_op.op = "select"
        /\ Len(api_keys) >= 3 /\ failed_keys # {}
        /\ key_usage_count[sel_idx[c]] >= 2

\* C20: while failed_keys stays the same set F, not all indices, consecutive
\* selections return the indices outside F in ascending cyclic order,
\* starting from the position the cursor left by earlier operations points
\* at (taken modulo the number of available indices), each index exactly
\* once in every |available| consecutive selections.
RoundRobinAmongAvailable ==
    LET avail == AllIndices(api_keys) \ failed_keys
        L == Cardinality(avail)
        M == Len(cycle)
        Rank(i) == Cardinality({j \in avail : j < i})
    IN  M >= 1 =>
          /\ L >= 1
          /\ \A i \in 1..M :
                /\ cycle[i].idx \in avail
                /\ Rank(cycle[i].idx) = (cycle[1].cur + i - 1) % L
          /\ \A i \in 1..(M - L + 1) :
                {cycle[m].idx : m \in i..(i + L - 1)} = avail
          /\ \A i, j \in 1..M :
                (i < j /\ j < i + L) => cycle[i].idx # cycle[j].idx

\* more than a full cycle among the two available keys of four, begun with
\* the cursor beyond the number of available keys
CycleWithStaleCursor ==
    /\ Len(api_keys) = 4 /\ Cardinality(failed_keys) = 2
    /\ Len(cycle) > 2
    /\ cycle[1].cur >= 2

\* C15: for every text whose extraction does not parse as JSON,
\* _parse_structured_output returns a value, the diagnostic, holding the
\* error marker and the first 500 characters of the text it was given.
DiagnosticHoldsOriginalText ==
    (extracted # NoResult /\ extracted.kind # "json") =>
        /\ extracted.kind = "diag"
        /\ extracted.error = ErrorMarker
        /\ extracted.raw_response = Take(raw_text, TruncLen)

\* call c handles a response with text in this step
TextStep(c) ==
    /\ pc[c] = "await" /\ pc'[c] # "await"
    /\ response'[c] # NoResponse /\ response'[c] # <<>>

\* a call that has returned does nothing more: its next step hands the value
\* to the caller, and neither step selects, marks, sends or sleeps
SuccessEndsCall(c) ==
    /\ TextStep(c) =>
          /\ pc'[c] = "returned"
          /\ fails'[c] = fails[c] /\ outbound'[c] = outbound[c]
          /\ wait_time'[c] = wait_time[c]
          /\ <<current_key_index, key_usage_count, failed_keys, pool_op>>
                = <<current_key_index', key_usage_count', failed_keys', pool_op'>>
    /\ pc[c] = "returned" =>
          /\ pc'[c] \in {"returned", "idle"}
          /\ thread'[c] = "none" /\ wait_time'[c] = 0
          /\ <<current_key_index, key_usage_count, failed_keys, pool_op>>
                = <<current_key_index', key_usage_count', failed_keys', pool_op'>>

ExtractorRaises(c) ==
    /\ TextStep(c) /\ structured[c]
    /\ ParseStructuredOutput(response'[c]).kind = "raised"

NothingEscapes ==
    \A c \in Calls :
        /\ pc[c] \in {"idle", "select", "raised", "await", "sleeping",
                       "returned", "failed", "config_error"}
        /\ pc[c] = "returned" =>
              result[c] # NoResult /\ fails[c] < retry_count[c]
        /\ pc[c] = "failed" =>
              /\ result[c] = NoResult
              /\ last_error[c] # None /\ fails[c] = retry_count[c]
        /\ pc[c] = "config_error" =>
              result[c] = NoResult /\ api_keys = <<>>
        /\ pc[c] \in {"select", "raised", "await", "sleeping"} =>
              result[c] = NoResult /\ fails[c] < retry_count[c]
        /\ caught[c] # None => last_error[c] = caught[c]

\* a call failed after attempts that setup errors ended before any request
FailedWithoutRequest ==
    \E c \in Calls :
        /\ pc[c] = "failed" /\ last_error[c] = SetupError
        /\ retry_count[c] >= 2 /\ fails[c] = retry_count[c]
        /\ outbound[c] < retry_count[c]

\* C21: with structured_output true, a response whose text does not parse
\* ends the call all the same: the call returns the diagnostic that
\* _parse_structured_output makes of that text, and the parse failure costs
\* no attempt, selection, request, sleep or mark and leaves the pool as the
\* attempt's selection left it.
ParseFailureEndsCall ==
    [][\A c \in Calls :
          (TextStep(c) /\ structured[c]
             /\ ParseStructuredOutput(response'[c]).kind # "json") =>
                /\ pc'[c] = "returned"
                /\ ParseStructuredOutput(response'[c]).kind = "diag"
                /\ result'[c] = ParseStructuredOutput(response'[c])
                /\ attempt'[c] = attempt[c] /\ fails'[c] = fails[c]
                /\ outbound'[c] = outbound[c] /\ wait_time'[c] = wait_time[c]
                /\ <<current_key_index, key_usage_count, failed_keys, pool_op>>
                      = <<current_key_index', key_usage_count', failed_keys',
                          pool_op'>>
      ]_vars

\* the part of a text from its first opening brace to its last closing
\* brace when that lies after it, the whole text otherwise
BraceSpan(text) ==
    LET opens == {i \in 1..Len(text) : text[i] = "{"}
        closes == {i \in 1..Len(text) : text[i] = "}"}
        first == CHOOSE i \in opens : \A j \in opens : i <= j
        last == CHOOSE i \in closes : \A j \in closes : j <= i
    IN  IF opens # {} /\ closes # {} /\ last > first
        THEN SubSeq(text, first, last)
        ELSE text

\* the JSON objects among the bodies of the texts explored
ObjectBodies == {body \in TextBodies : body # <<>> /\ JsonLoads(body).exc = None
                                         /\ JsonLoads(body).val.t = "obj"}

\* the text is that object inside at most one fence, with or without prose
\* around it
Embeds(text, body) ==
    \E lead \in TextLeads, open \in {<<>>, Fence, FenceJson}, brk \in TextBreaks,
       before \in TextBefore, after \in TextAfter, close \in TextCloses,
       trail \in TextTrails :
        text = lead \o open \o brk \o before \o body \o after \o close \o trail

\* C22: what _parse_structured_output hands to json.loads is the normalized
\* text from its first opening brace to its last closing brace when both
\* exist in that order, the whole normalized text in every other case; its
\* result is the value json.loads gives for that part, the diagnostic when
\* json.loads rejects it; so a JSON object inside a fence or inside prose
\* comes back as the parsed object.
BraceSelection ==
    extracted # NoResult =>
        LET loaded == JsonLoads(BraceSpan(Normalized(raw_text)))
        IN  /\ extracted.kind = "json" <=> loaded.exc = None
            /\ extracted.kind = "diag" <=> loaded.exc = "JSONDecodeError"
            /\ extracted.kind = "json" => extracted.val = loaded.val
            /\ \A body \in ObjectBodies :
                  Embeds(raw_text, body) =>
                      extracted = [kind |-> "json", val |-> JsonLoads(body).val]

\* a nested object inside a JSON fence with prose on both sides was parsed
ObjectFoundInFencedProse ==
    LET body == <<"{", "\"", "a", "\"", ":", "{", "\"", "b", "\"", ":", "[", "1", ",",
                  "2", "]", "}", "}">>
    IN  /\ raw_text = FenceJson \o <<"\n", "H", "i", ":", " ">> \o body
                          \o <<" ", "o", "k">> \o Fence
        /\ extracted = [kind |-> "json", val |-> JsonLoads(body).val]
        /\ BraceSpan(Normalized(raw_text)) = body

\* the normalization of spec 4.3: the whitespace around the text goes, then
\* one leading marker, the JSON fence or else the plain fence, then one
\* trailing fence
OneMarkerNormalized(text) ==
    LET trimmed == Strip(text)
        opened == IF StartsWith(trimmed, FenceJson) THEN Drop(trimmed, Len(FenceJson))
                  ELSE IF StartsWith(trimmed, Fence) THEN Drop(trimmed, Len(Fence))
                  ELSE trimmed
    IN  IF EndsWith(opened, Fence)
        THEN SubSeq(opened, 1, Len(opened) - Len(Fence))
        ELSE opened

\* C23: _parse_structured_output works on the text normalized in that way,
\* with at most one leading marker removed: what it returns is what the
\* brace selection and json.loads make of that text, and its diagnostic
\* holds the first 500 characters of that text.
NormalizationOneLeadingMarker ==
    extracted # NoResult =>
        LET text == OneMarkerNormalized(raw_text)
            loaded == JsonLoads(BraceSpan(text))
        IN  extracted =
              IF loaded.exc = None THEN [kind |-> "json", val |-> loaded.val]
              ELSE IF loaded.exc = "JSONDecodeError"
              THEN [kind |-> "diag", error |-> ErrorMarker,
                    raw_response |-> Take(text, TruncLen)]
              ELSE [kind |-> "raised", exc |-> loaded.exc]

\* C24: every call that was started ends, with its value returned or with
\* the failure raised after the loop, whatever the other calls on the pool
\* do meanwhile, and by then it has sent at most retry_count requests and
\* slept at most retry_count - 1 times.
Termination ==
    /\ [](\A c \in Calls :
             pc[c] # "idle" =>
                 /\ outbound[c] <= retry_count[c]
                 /\ sleeps[c] <= retry_count[c] - 1
                 /\ attempt[c] <= retry_count[c] - 1)
    /\ \A c \in Calls : (pc[c] # "idle") ~> (pc[c] \in {"returned", "failed"})

\* a call ended after its last attempt and after every sleep it could make,
\* while another call was under way
EndedAfterEverySleep ==
    \E c, d \in Calls :
        /\ c # d
        /\ pc[c] = "failed" /\ retry_count[c] >= 2
        /\ outbound[c] = retry_count[c] /\ sleeps[c] = retry_count[c] - 1
        /\ pc[d] \in {"await", "sleeping"}

\* C25: with at least two distinct keys and one caller, the attempt that
\* follows a quota failure in the same call gets another key than the one
\* the failed attempt had, the one just marked, also when the mark filled
\* failed_keys and the selection begins by clearing it.
RotatesAfterQuota ==
    [][\A c \in Calls :
          (SelectStep(c) /\ attempt[c] >= 1 /\ last_error[c] \in QuotaMsgs
             /\ Cardinality(Range(api_keys)) >= 2) =>
                api_key'[c] # api_key[c]
      ]_vars

\* C26: _mark_key_failed called with the key that the selection just before
\* it returned puts into failed_keys the index that selection had selected,
\* on every key list, those with a repeated key included.
MarkAddsSelectedIndex ==
    [][(pool_op.op = "select" /\ pool_op'.op = "mark"
          /\ pool_op'.key = pool_op.key) =>
             pool_op.idx \in failed_keys'
      ]_vars

\* C27: in every step failed_keys grows or stays as it is, or a selection
\* takes it from holding every index to empty; handling a response with
\* text, handling a transient failure and the end of a sleep leave it as it
\* is; so an index in failed_keys is not selected, and stays in failed_keys,
\* until failed_keys holds every index.
FailedShrinksOnlyByReset ==
    [][/\ \/ failed_keys \subseteq failed_keys'
          \/ /\ failed_keys = AllIndices(api_keys) /\ failed_keys' = {}
             /\ \E c \in Calls : SelectStep(c)
       /\ \A c \in Calls :
             (\/ TextStep(c)
              \/ FailStep(c) /\ last_error'[c] \in TransientMsgs
              \/ pc[c] = "sleeping" /\ pc'[c] # "sleeping"
              \/ pc[c] \in {"returned", "failed"} /\ pc'[c] # pc[c])
                 => failed_keys' = failed_keys
       /\ \A c \in Calls : \A i \in failed_keys :
             (SelectStep(c) /\ failed_keys # AllIndices(api_keys)) =>
                 sel_idx'[c] # i /\ i \in failed_keys'
      ]_vars

\* one of three or more keys was marked, and three selections later, after
\* failures of the call that were not all quota failures, a response with
\* text ended the call with that key still in failed_keys
PenalizedKeyStillExcluded ==
    /\ Len(api_keys) >= 3 /\ Cardinality(failed_keys) = 1
    /\ Len(cycle) >= 3
    /\ \E c \in Calls : pc[c] = "returned" /\ fails[c] >= 3 /\ sleeps[c] >= 2

\* C28: for every text whose normalized form is, as a whole, valid JSON (an
\* object, an array, an array of several objects, a string, a number),
\* _parse_structured_output returns the value json.loads gives for that
\* whole normalized text, never the diagnostic.
WholeTextJsonExtracted ==
    extracted # NoResult =>
        LET whole == JsonLoads(Normalized(raw_text))
        IN  whole.exc = None =>
                extracted = [kind |-> "json", val |-> whole.val]

\* C29: a call made with structured_output false that has returned holds a
\* text that is not empty, whatever text the response carried, a text of
\* whitespace only included.
RawSuccessNonEmpty ==
    \A c \in Calls :
        (pc[c] = "returned" /\ ~structured[c]) =>
            result[c].kind = "text" /\ result[c].val # <<>>

\* C30: in every state the usage counters add up to the number of
\* _get_next_api_key calls made on the pool since construction, by all
\* calls together; no step lowers or drops a counter, the selection that
\* empties failed_keys included.
UsageAccounting ==
    /\ [](TotalUsage = selections)
    /\ [][/\ (\A i \in DOMAIN key_usage_count :
                 /\ i \in DOMAIN key_usage_count'
                 /\ key_usage_count'[i] >= key_usage_count[i])
           /\ (failed_keys # {} /\ failed_keys' = {}) =>
                 /\ \A k \in DOMAIN key_usage_count :
                        key_usage_count'[k] >= key_usage_count[k]
                 /\ TotalUsage' = TotalUsage + (selections' - selections)
          ]_vars

\* the selection that emptied failed_keys was the fourth or a later one, and
\* every key still has the count of the selections that returned it
CountersKeptAcrossReset ==
    /\ pool_op.op = "select" /\ pool_op.reset
    /\ Len(api_keys) >= 2 /\ selections >= 4
    /\ \A i \in AllIndices(api_keys) : key_usage_count[i] >= 1
    /\ key_usage_count[pool_op.idx] >= 2

====
